---------------------------- MODULE Spec2Model ----------------------------
(***************************************************************************)
(* A model of the rndc client (kweonminsung/bind9_rndc_rust):              *)
(*   - the wire codec      src/src/internal/encoder.rs, decoder.rs         *)
(*   - the signer          src/src/internal/encoder.rs                     *)
(*   - the session         src/src/lib.rs (rndc_handshake, rndc_command)   *)
(* Bytes are integers 0..255, byte strings are sequences of bytes.  A     *)
(* value of the tagged tree is a record [t, v]: t is the variant and v the *)
(* payload (bytes, a sequence of <<key, value>> entries, or a sequence of  *)
(* values).  Positions in a buffer are 0-based, as in the source.          *)
(***************************************************************************)
EXTENDS Integers, Sequences, FiniteSets, TLC

\* ------------------------------------------------------------------------
\* Byte strings the source names as literals.
\* ------------------------------------------------------------------------
S_ctrl   == <<95, 99, 116, 114, 108>>          \* "_ctrl"
S_data   == <<95, 100, 97, 116, 97>>           \* "_data"
S_auth   == <<95, 97, 117, 116, 104>>          \* "_auth"
S_ser    == <<95, 115, 101, 114>>              \* "_ser"
S_tim    == <<95, 116, 105, 109>>              \* "_tim"
S_exp    == <<95, 101, 120, 112>>              \* "_exp"
S_nonce  == <<95, 110, 111, 110, 99, 101>>     \* "_nonce"
S_type   == <<116, 121, 112, 101>>             \* "type"
S_result == <<114, 101, 115, 117, 108, 116>>   \* "result"
S_text   == <<116, 101, 120, 116>>             \* "text"
S_err    == <<101, 114, 114>>                  \* "err"
S_null   == <<110, 117, 108, 108>>             \* "null"
S_zero   == <<48>>                             \* "0"
S_hmd5   == <<104, 109, 100, 53>>              \* "hmd5"
S_hsha   == <<104, 115, 104, 97>>              \* "hsha"

\* ------------------------------------------------------------------------
\* constants.rs
\* ------------------------------------------------------------------------
MSGTYPE_STRING     == 0
MSGTYPE_BINARYDATA == 1
MSGTYPE_TABLE      == 2
MSGTYPE_LIST       == 3

ISCCC_ALG_HMAC_MD5    == 157
ISCCC_ALG_HMAC_SHA1   == 161
ISCCC_ALG_HMAC_SHA224 == 162
ISCCC_ALG_HMAC_SHA256 == 163
ISCCC_ALG_HMAC_SHA384 == 164
ISCCC_ALG_HMAC_SHA512 == 165

RndcAlg == {"MD5", "SHA1", "SHA224", "SHA256", "SHA384", "SHA512"}


\* ------------------------------------------------------------------------
\* Helpers on byte strings and integers.
\* ------------------------------------------------------------------------
SubBytes(s, lo, hi) == [i \in 1..(hi - lo) |-> s[lo + i]]   \* s[lo..hi], 0-based, hi excluded

Zeros(n) == [i \in 1..n |-> 0]

\* A u32 is the pair <<hi, lo>> of its 16-bit halves (TLC's integers
\* are 32-bit signed, so 2^32 - 1 is not one of them).  Every buffer of the
\* model is shorter than 2^16 bytes.
Half == 256 * 256

\* n as u32, for a length or a small number of the model
u32(n) == << (n \div Half) % Half, n % Half >>

u32_MAX == << Half - 1, Half - 1 >>

\* a + k and a - k in u32, 0 <= k < 2^16: the wrapped value and whether it overflowed
u32_add(a, k) ==
    LET lo == a[2] + k
        hi == a[1] + (lo \div Half)
    IN  [overflow |-> hi >= Half, val |-> << hi % Half, lo % Half >>]

u32_sub(a, k) ==
    LET lo == a[2] - k
        hi == a[1] - (IF lo < 0 THEN 1 ELSE 0)
    IN  [overflow |-> hi < 0, val |-> << (hi + Half) % Half, (lo + Half) % Half >>]

\* a as usize is at most n, for a length n of the model
u32_le(a, n) == a[1] = 0 /\ a[2] <= n

\* u32::to_be_bytes
to_be_bytes(a) == << a[1] \div 256, a[1] % 256, a[2] \div 256, a[2] % 256 >>

\* u32::from_be_bytes
from_be_bytes(b) == << b[1] * 256 + b[2], b[3] * 256 + b[4] >>

\* u32::to_string().into_bytes(): the decimal digits, no leading zero
RECURSIVE to_string(_)
to_string(a) ==
    LET t == (a[1] % 10) * Half + a[2]
    IN  IF a[1] = 0 /\ a[2] < 10 THEN << 48 + a[2] >>
        ELSE Append(to_string(<< a[1] \div 10, t \div 10 >>), 48 + (t % 10))

\* String::from_utf8: whether the bytes are well-formed UTF-8 (no overlong
\* form, no surrogate, at most U+10FFFF).  Every lead byte is followed by
\* exactly the continuation bytes it needs, and every continuation byte
\* belongs to a lead byte at most three places before it.
utf8_cont(c) == c >= 128 /\ c <= 191

\* the number of continuation bytes after the lead byte c; -1: not a lead byte
utf8_need(c) ==
    IF c < 128 THEN 0
    ELSE IF c >= 194 /\ c <= 223 THEN 1
    ELSE IF c >= 224 /\ c <= 239 THEN 2
    ELSE IF c >= 240 /\ c <= 244 THEN 3
    ELSE -1

\* the range of the second byte that the lead byte c allows
utf8_second(c, d) ==
    /\ c = 224 => d >= 160
    /\ c = 237 => d <= 159
    /\ c = 240 => d >= 144
    /\ c = 244 => d <= 143

is_utf8(b) ==
    \A i \in 1..Len(b) :
        IF utf8_cont(b[i])
            THEN \E k \in 1..3 :
                    /\ i - k >= 1
                    /\ ~utf8_cont(b[i - k])
                    /\ utf8_need(b[i - k]) >= k
                    /\ \A j \in 1..(k - 1) : utf8_cont(b[i - j])
        ELSE /\ utf8_need(b[i]) >= 0
             /\ i + utf8_need(b[i]) <= Len(b)
             /\ \A j \in 1..utf8_need(b[i]) : utf8_cont(b[i + j])
             /\ utf8_need(b[i]) >= 1 => utf8_second(b[i], b[i + 1])

\* ------------------------------------------------------------------------
\* IndexMap<String, V>: a sequence of <<key, value>> entries, keys unique,
\* in insertion order.
\* ------------------------------------------------------------------------
EmptyMap == << >>

map_index(m, k) ==
    IF \E i \in 1..Len(m) : m[i][1] = k
    THEN CHOOSE i \in 1..Len(m) : m[i][1] = k
    ELSE 0

map_has(m, k) == map_index(m, k) # 0

\* IndexMap::get; only used where map_has holds
map_get(m, k) == m[map_index(m, k)][2]

\* a variant in which a key inserted again moves behind the other entries
map_insert_moves_to_end(m, k, v) ==
    Append(SelectSeq(m, LAMBDA e : e[1] # k), <<k, v>>)

\* IndexMap::insert: an existing key keeps its place and takes the new value
map_insert(m, k, v) ==
    IF map_has(m, k) THEN [m EXCEPT ![map_index(m, k)] = <<k, v>>]
    ELSE Append(m, <<k, v>>)

\* IndexMap::swap_remove instead: the last entry takes the place of the removed one
swap_remove(m, k) ==
    LET i == map_index(m, k)
    IN  IF i = 0 THEN m
        ELSE [j \in 1..(Len(m) - 1) |-> IF j = i THEN m[Len(m)] ELSE m[j]]

\* IndexMap::shift_remove: the entry is removed, the others keep their order
shift_remove(m, k) ==
    LET i == map_index(m, k)
    IN  IF i = 0 THEN m
        ELSE [j \in 1..(Len(m) - 1) |-> IF j < i THEN m[j] ELSE m[j + 1]]

\* ------------------------------------------------------------------------
\* encoder.rs: RNDCValue and the *_towire functions
\* ------------------------------------------------------------------------
Binary(b) == [t |-> "Binary", v |-> b]
Table(m)  == [t |-> "Table", v |-> m]
List(l)   == [t |-> "List", v |-> l]
String(b) == [t |-> "String", v |-> b]      \* decoder.rs RNDCPayload::String

\* a variant whose length field counts the 5 bytes of the prefix too
raw_towire_counts_prefix(type_byte, buffer) ==
    <<type_byte>> \o to_be_bytes(u32(Len(buffer) + 5)) \o buffer

raw_towire(type_byte, buffer) ==
    <<type_byte>> \o to_be_bytes(u32(Len(buffer))) \o buffer

binary_towire(val) == raw_towire(MSGTYPE_BINARYDATA, val)

\* the key length is cast to u8
key_towire(key) == << Len(key) % 256 >> \o key

RECURSIVE value_towire(_), table_body_towire(_, _), list_body_towire(_, _)

\* the concatenation of the entries i.. of a table
table_body_towire(m, i) ==
    IF i > Len(m) THEN << >>
    ELSE key_towire(m[i][1]) \o value_towire(m[i][2]) \o table_body_towire(m, i + 1)

\* the concatenation of the elements i.. of a list
list_body_towire(l, i) ==
    IF i > Len(l) THEN << >>
    ELSE value_towire(l[i]) \o list_body_towire(l, i + 1)

value_towire(val) ==
    IF val.t = "List" THEN raw_towire(MSGTYPE_LIST, list_body_towire(val.v, 1))
    ELSE IF val.t = "Table" THEN raw_towire(MSGTYPE_TABLE, table_body_towire(val.v, 1))
    ELSE binary_towire(val.v)

list_towire(vals) == raw_towire(MSGTYPE_LIST, list_body_towire(vals, 1))

table_towire(val, no_header) ==
    IF no_header THEN table_body_towire(val, 1)
    ELSE raw_towire(MSGTYPE_TABLE, table_body_towire(val, 1))

\* ------------------------------------------------------------------------
\* decoder.rs.  A Cursor over a slice is a buffer, a position and the end of
\* the slice; a Result is [st, val, pos, err] with st "Ok", "Err" or "Panic"
\* (an index out of range aborts the thread).
\* ------------------------------------------------------------------------
R_ok(v, p)  == [st |-> "Ok", val |-> v, pos |-> p, err |-> ""]
R_err(e, p) == [st |-> "Err", val |-> << >>, pos |-> p, err |-> e]
R_panic(e)  == [st |-> "Panic", val |-> << >>, pos |-> 0, err |-> e]

\* the cursor is over exactly len bytes, so read_exact cannot fail here
binary_fromwire(buf, pos, len) ==
    LET b == SubBytes(buf, pos, pos + len)
    IN  IF is_utf8(b) THEN R_ok(String(b), pos + len) ELSE R_ok(Binary(b), pos + len)

key_fromwire(buf, pos, end) ==
    IF pos >= end THEN R_err("failed to fill whole buffer", pos)
    ELSE LET len == buf[pos + 1]
         IN  IF pos + 1 + len > end THEN R_err("failed to fill whole buffer", pos + 1)
             ELSE LET b == SubBytes(buf, pos + 1, pos + 1 + len)
                  IN  IF is_utf8(b) THEN R_ok(b, pos + 1 + len)
                      ELSE R_err("invalid utf-8 sequence", pos + 1 + len)

RECURSIVE value_fromwire(_, _, _), table_fromwire(_, _, _, _), list_fromwire(_, _, _, _)

\* the slice [pos..pos + len] is taken before the tag is looked at
value_fromwire(buf, pos, end) ==
    IF pos >= end THEN R_err("failed to fill whole buffer", pos)
    ELSE IF pos + 5 > end THEN R_err("failed to fill whole buffer", pos + 1)
    ELSE LET typ == buf[pos + 1]
             len == from_be_bytes(SubBytes(buf, pos + 1, pos + 5))
             p   == pos + 5
         IN  IF ~u32_le(len, end - p) THEN R_panic("range end index out of range for slice")
             ELSE LET result ==
                          IF typ = MSGTYPE_STRING \/ typ = MSGTYPE_BINARYDATA
                              THEN binary_fromwire(buf, p, len[2])
                          ELSE IF typ = MSGTYPE_TABLE
                              THEN LET r == table_fromwire(buf, p, p + len[2], EmptyMap)
                                   IN  IF r.st = "Ok" THEN R_ok(Table(r.val), r.pos) ELSE r
                          ELSE IF typ = MSGTYPE_LIST
                              THEN LET r == list_fromwire(buf, p, p + len[2], << >>)
                                   IN  IF r.st = "Ok" THEN R_ok(List(r.val), r.pos) ELSE r
                          ELSE R_err("Unknown RNDC message type", p)
                  IN  IF result.st = "Panic" THEN result
                      ELSE [result EXCEPT !.pos = p + len[2]]

table_fromwire(buf, pos, end, map) ==
    IF pos >= end THEN R_ok(map, pos)
    ELSE LET key == key_fromwire(buf, pos, end)
         IN  IF key.st # "Ok" THEN key
             ELSE LET value == value_fromwire(buf, key.pos, end)
                  IN  IF value.st # "Ok" THEN value
                      ELSE table_fromwire(buf, value.pos, end,
                                          map_insert(map, key.val, value.val))

list_fromwire(buf, pos, end, list) ==
    IF pos >= end THEN R_ok(list, pos)
    ELSE LET value == value_fromwire(buf, pos, end)
         IN  IF value.st # "Ok" THEN value
             ELSE list_fromwire(buf, value.pos, end, Append(list, value.val))

\* a variant that looks at the version before the length
decode_checks_version_first(buf) ==
    IF Len(buf) < 8 THEN R_err("failed to fill whole buffer", 0)
    ELSE IF from_be_bytes(SubBytes(buf, 4, 8)) # u32(1)
        THEN R_err("Unknown RNDC protocol version", 8)
    ELSE IF from_be_bytes(SubBytes(buf, 0, 4)) # u32(Len(buf) - 4)
        THEN R_err("RNDC buffer length mismatch", 4)
    ELSE table_fromwire(buf, 8, Len(buf), EmptyMap)

decode(buf) ==
    IF Len(buf) < 4 THEN R_err("failed to fill whole buffer", 0)
    ELSE LET len == from_be_bytes(SubBytes(buf, 0, 4))
         IN  IF len # u32(Len(buf) - 4) THEN R_err("RNDC buffer length mismatch", 4)
             ELSE IF Len(buf) < 8 THEN R_err("failed to fill whole buffer", 4)
             ELSE LET version == from_be_bytes(SubBytes(buf, 4, 8))
                  IN  IF version # u32(1) THEN R_err("Unknown RNDC protocol version", 8)
                      ELSE table_fromwire(buf, 8, Len(buf), EmptyMap)

\* ------------------------------------------------------------------------
\* encoder.rs: the signer.  base64 (STANDARD, padded) is computed; the keyed
\* hash of the hmac crate is a deterministic stand-in that has the digest
\* length of the algorithm and depends on the algorithm, the key and the data.
\* ------------------------------------------------------------------------
b64char(i) ==
    IF i < 26 THEN 65 + i
    ELSE IF i < 52 THEN 97 + (i - 26)
    ELSE IF i < 62 THEN 48 + (i - 52)
    ELSE IF i = 62 THEN 43
    ELSE 47

RECURSIVE b64_from(_, _)
b64_from(b, i) ==
    LET n == Len(b) - i
        x == b[i + 1]
        y == b[i + 2]
        z == b[i + 3]
    IN  IF n <= 0 THEN << >>
        ELSE IF n = 1
            THEN << b64char(x \div 4), b64char((x % 4) * 16), 61, 61 >>
        ELSE IF n = 2
            THEN << b64char(x \div 4), b64char((x % 4) * 16 + (y \div 16)),
                    b64char((y % 16) * 4), 61 >>
        ELSE << b64char(x \div 4), b64char((x % 4) * 16 + (y \div 16)),
                b64char((y % 16) * 4 + (z \div 64)), b64char(z % 64) >>
             \o b64_from(b, i + 3)

\* general_purpose::STANDARD.encode
base64_encode(b) == b64_from(b, 0)

\* str::trim_end_matches('=')
RECURSIVE trim_end_matches_eq(_)
trim_end_matches_eq(s) ==
    IF Len(s) > 0 /\ s[Len(s)] = 61 THEN trim_end_matches_eq(SubBytes(s, 0, Len(s) - 1))
    ELSE s

digest_len(algorithm) ==
    CASE algorithm = "MD5"    -> 16
      [] algorithm = "SHA1"   -> 20
      [] algorithm = "SHA224" -> 28
      [] algorithm = "SHA256" -> 32
      [] algorithm = "SHA384" -> 48
      [] algorithm = "SHA512" -> 64

\* a checksum of the bytes lo..hi of b that depends on every byte and its place
RECURSIVE checksum(_, _, _)
checksum(b, lo, hi) ==
    IF lo > hi THEN 0
    ELSE IF lo = hi THEN (lo * (b[lo] + 1)) % 65521
    ELSE LET mid == (lo + hi) \div 2
         IN  (checksum(b, lo, mid) * 31 + checksum(b, mid + 1, hi)) % 65521

\* Hmac::<D>::new_from_slice(secret), update(databuf), finalize().into_bytes():
\* new_from_slice accepts a key of any length, so it never fails
hmac_digest(algorithm, secret, databuf) ==
    LET k == checksum(secret, 1, Len(secret))
        d == checksum(databuf, 1, Len(databuf))
    IN  [i \in 1..digest_len(algorithm) |->
            (k * 7 + d + i * 37 + digest_len(algorithm)) % 256]

\* a variant in which the SHA224 arm carries the code of the SHA256 arm
alg_code_copied(algorithm) ==
    CASE algorithm = "MD5"    -> ISCCC_ALG_HMAC_MD5
      [] algorithm = "SHA1"   -> ISCCC_ALG_HMAC_SHA1
      [] algorithm = "SHA224" -> ISCCC_ALG_HMAC_SHA256
      [] algorithm = "SHA256" -> ISCCC_ALG_HMAC_SHA256
      [] algorithm = "SHA384" -> ISCCC_ALG_HMAC_SHA384
      [] algorithm = "SHA512" -> ISCCC_ALG_HMAC_SHA512

alg_code(algorithm) ==
    CASE algorithm = "MD5"    -> ISCCC_ALG_HMAC_MD5
      [] algorithm = "SHA1"   -> ISCCC_ALG_HMAC_SHA1
      [] algorithm = "SHA224" -> ISCCC_ALG_HMAC_SHA224
      [] algorithm = "SHA256" -> ISCCC_ALG_HMAC_SHA256
      [] algorithm = "SHA384" -> ISCCC_ALG_HMAC_SHA384
      [] algorithm = "SHA512" -> ISCCC_ALG_HMAC_SHA512

SigBufLen == 89

\* copy_from_slice into buf[1..1 + len] panics when the text does not fit
make_signature(algorithm, secret, message_body) ==
    LET databuf == table_towire(message_body, TRUE)
        digest  == hmac_digest(algorithm, secret, databuf)
        sig_type == IF algorithm = "MD5" THEN S_hmd5 ELSE S_hsha
        sig_b64 == IF algorithm = "MD5" THEN trim_end_matches_eq(base64_encode(digest))
                   ELSE base64_encode(digest)
    IN  IF sig_type = S_hmd5
            THEN R_ok(Table(<< <<sig_type, Binary(sig_b64)>> >>), 0)
        ELSE IF 1 + Len(sig_b64) > SigBufLen
            THEN R_panic("range end index out of range for slice")
        ELSE R_ok(Table(<< <<sig_type,
                             Binary(<<alg_code(algorithm)>> \o sig_b64
                                    \o Zeros(SigBufLen - 1 - Len(sig_b64)))>> >>), 0)

\* a variant whose length field counts the length field itself
encode_counts_length_field(obj0, algorithm, secret) ==
    LET obj       == shift_remove(obj0, S_auth)
        databuf   == table_towire(obj, TRUE)
        sig_value == make_signature(algorithm, secret, obj)
    IN  IF sig_value.st # "Ok" THEN sig_value
        ELSE LET sigbuf == table_towire(<< <<S_auth, sig_value.val>> >>, TRUE)
                 length == 8 + Len(sigbuf) + Len(databuf)
             IN  R_ok(to_be_bytes(u32(length)) \o to_be_bytes(u32(1))
                      \o sigbuf \o databuf, 0)

encode(obj0, algorithm, secret) ==
    LET obj       == shift_remove(obj0, S_auth)
        databuf   == table_towire(obj, TRUE)
        sig_value == make_signature(algorithm, secret, obj)
    IN  IF sig_value.st # "Ok" THEN sig_value
        ELSE LET sigbuf == table_towire(<< <<S_auth, sig_value.val>> >>, TRUE)
                 length == 8 + Len(sigbuf) + Len(databuf)
             IN  R_ok(to_be_bytes(u32_sub(u32(length), 4).val) \o to_be_bytes(u32(1))
                      \o sigbuf \o databuf, 0)

\* ------------------------------------------------------------------------
\* lib.rs: the pure parts of the client.  Option<T> is a sequence of no or
\* one element.  An arithmetic overflow panics in a build with overflow
\* checks and wraps in one without; overflow_checks says which build runs.
\* ------------------------------------------------------------------------
None    == << >>
Some(x) == << x >>

ExpiryWindow == 60

\* a variant that forgets to echo the nonce
ctrl_with_nonce_forgets(ctrl_map, nonce) == ctrl_map

\* lib.rs 155-160: the nonce, when there is one, goes last into _ctrl
ctrl_with_nonce(ctrl_map, nonce) ==
    IF nonce # None THEN map_insert(ctrl_map, S_nonce, Binary(nonce[1]))
    ELSE ctrl_map

build_message(command, algorithm, secret, nonce, ser, now, overflow_checks) ==
    IF u32_add(now, ExpiryWindow).overflow /\ overflow_checks
        THEN R_panic("attempt to add with overflow")
    ELSE LET exp       == u32_add(now, ExpiryWindow).val
             ctrl_base == << <<S_ser, Binary(to_string(ser))>>,
                             <<S_tim, Binary(to_string(now))>>,
                             <<S_exp, Binary(to_string(exp))>> >>
             ctrl_map  == ctrl_with_nonce(ctrl_base, nonce)
             data_map  == << <<S_type, Binary(command)>> >>
             message_body == << <<S_ctrl, Table(ctrl_map)>>, <<S_data, Table(data_map)>> >>
         IN  encode(message_body, algorithm, secret)

\* an error of the codec (a String) as the client's typed error
decoding_error(e) == [kind |-> "DecodingError", msg |-> e]
encoding_error(e) == [kind |-> "EncodingError", msg |-> e]
network_error(e)  == [kind |-> "NetworkError", msg |-> e]

\* constants.rs RndcAlg::from_string: the names are matched as they are written
from_string(alg) ==
    IF alg \in {"md5", "hmd5", "hmac-md5"} THEN [st |-> "Ok", val |-> "MD5"]
    ELSE IF alg \in {"sha1", "hsha1", "hmac-sha1"} THEN [st |-> "Ok", val |-> "SHA1"]
    ELSE IF alg \in {"sha224", "hsha224", "hmac-sha224"} THEN [st |-> "Ok", val |-> "SHA224"]
    ELSE IF alg \in {"sha256", "hsha256", "hmac-sha256"} THEN [st |-> "Ok", val |-> "SHA256"]
    ELSE IF alg \in {"sha384", "hsha384", "hmac-sha384"} THEN [st |-> "Ok", val |-> "SHA384"]
    ELSE IF alg \in {"sha512", "hsha512", "hmac-sha512"} THEN [st |-> "Ok", val |-> "SHA512"]
    ELSE [st |-> "Err", val |-> ""]

\* the value of a symbol of the standard alphabet, -1 for any other byte
b64val(c) ==
    IF c >= 65 /\ c <= 90 THEN c - 65
    ELSE IF c >= 97 /\ c <= 122 THEN c - 71
    ELSE IF c >= 48 /\ c <= 57 THEN c + 4
    ELSE IF c = 43 THEN 62
    ELSE IF c = 47 THEN 63
    ELSE -1

\* general_purpose::STANDARD.decode: the length is a multiple of 4, the
\* padding is one or two '=' at the very end, every other byte is a symbol,
\* and the bits of the last symbol that belong to no byte are zero
base64_decode(s) ==
    LET n    == Len(s)
        pad  == IF n > 0 /\ s[n] = 61 THEN (IF n > 1 /\ s[n - 1] = 61 THEN 2 ELSE 1) ELSE 0
        data == n - pad
        v(i) == IF i <= data THEN b64val(s[i]) ELSE 0
        valid == /\ n % 4 = 0
                 /\ \A i \in 1..data : b64val(s[i]) >= 0
                 /\ pad = 1 => b64val(s[data]) % 4 = 0
                 /\ pad = 2 => b64val(s[data]) % 16 = 0
    IN  IF ~valid THEN [st |-> "Err", val |-> << >>]
        ELSE [st |-> "Ok",
              val |-> [j \in 1..(3 * (n \div 4) - pad) |->
                          LET q == 4 * ((j - 1) \div 3)
                              r == (j - 1) % 3
                          IN  IF r = 0 THEN v(q + 1) * 4 + (v(q + 2) \div 16)
                              ELSE IF r = 1 THEN (v(q + 2) % 16) * 16 + (v(q + 3) \div 4)
                              ELSE (v(q + 3) % 4) * 64 + v(q + 4)]]

\* a variant that parses the algorithm name before it decodes the key
new_parses_name_first(server_url, algorithm, secret_key_b64) ==
    LET a == from_string(algorithm)
        k == base64_decode(secret_key_b64)
    IN  IF a.st = "Err"
            THEN [st |-> "Err", val |-> << >>,
                  err |-> [kind |-> "InvalidAlgorithm", msg |-> "Unknown algorithm"]]
        ELSE IF k.st = "Err"
            THEN [st |-> "Err", val |-> << >>,
                  err |-> [kind |-> "Base64DecodeError", msg |-> ""]]
        ELSE [st |-> "Ok", err |-> [kind |-> "", msg |-> ""],
              val |-> [server_url |-> server_url, algorithm |-> a.val, secret_key |-> k.val]]

\* lib.rs RndcClient::new: the key is decoded first (29-31), the name is
\* parsed when the struct is built (35)
new(server_url, algorithm, secret_key_b64) ==
    LET k == base64_decode(secret_key_b64)
        a == from_string(algorithm)
    IN  IF k.st = "Err"
            THEN [st |-> "Err", val |-> << >>,
                  err |-> [kind |-> "Base64DecodeError", msg |-> ""]]
        ELSE IF a.st = "Err"
            THEN [st |-> "Err", val |-> << >>,
                  err |-> [kind |-> "InvalidAlgorithm", msg |-> "Unknown algorithm"]]
        ELSE [st |-> "Ok", err |-> [kind |-> "", msg |-> ""],
              val |-> [server_url |-> server_url, algorithm |-> a.val, secret_key |-> k.val]]

\* the Table under key k of a decoded table, if there is one
get_table(resp, k) ==
    IF map_has(resp, k) /\ map_get(resp, k).t = "Table" THEN Some(map_get(resp, k).v)
    ELSE None

\* the String under key k of a decoded table, if there is one
get_string(map, k) ==
    IF map_has(map, k) /\ map_get(map, k).t = "String" THEN Some(map_get(map, k).v)
    ELSE None

\* a variant that goes on with an empty nonce
nonce_defaults_to_empty ==
    [st |-> "Ok", val |-> << >>, err |-> decoding_error("")]

\* lib.rs 191-193: no text _ctrl._nonce in the response
nonce_not_received ==
    [st |-> "Err", val |-> << >>, err |-> decoding_error("RNDC nonce not received")]

\* Result<String, RndcError>: [st, val, err]
get_nonce(packet) ==
    LET resp == decode(packet)
    IN  IF resp.st = "Panic" THEN [st |-> "Panic", val |-> << >>, err |-> decoding_error(resp.err)]
        ELSE IF resp.st = "Err" THEN [st |-> "Err", val |-> << >>, err |-> decoding_error(resp.err)]
        ELSE LET ctrl_map == get_table(resp.val, S_ctrl)
             IN  IF ctrl_map # None /\ get_string(ctrl_map[1], S_nonce) # None
                     THEN [st |-> "Ok", val |-> get_string(ctrl_map[1], S_nonce)[1],
                           err |-> decoding_error("")]
                 ELSE nonce_not_received

\* read_packet on a stream that delivers the bytes avail and then ends;
\* io_error is an error of the transport during the first or the second read
read_packet(avail, io_error, overflow_checks) ==
    IF io_error = "header" \/ Len(avail) < 8
        THEN [st |-> "Err", val |-> << >>, err |-> network_error("Failed to read header")]
    ELSE LET header   == SubBytes(avail, 0, 8)
             declared == from_be_bytes(SubBytes(header, 0, 4))
         IN  IF u32_sub(declared, 4).overflow /\ overflow_checks
                 THEN [st |-> "Panic", val |-> << >>,
                       err |-> network_error("attempt to subtract with overflow")]
             ELSE LET length_field == u32_sub(declared, 4).val
                  IN  IF \/ io_error = "payload" /\ length_field # u32(0)
                         \/ ~u32_le(length_field, Len(avail) - 8)
                          THEN [st |-> "Err", val |-> << >>,
                                err |-> network_error("Failed to read payload")]
                      ELSE [st |-> "Ok", val |-> header \o SubBytes(avail, 8, 8 + length_field[2]),
                            err |-> network_error("")]

\* what rndc_command returns: [kind, err, result, text, errtext, at]
NoOutcome == [kind |-> "None", err |-> "", msg |-> "", result |-> FALSE,
              text |-> None, errtext |-> None, at |-> ""]

Ok(result, text, err) == [kind |-> "Ok", err |-> "", msg |-> "", result |-> result,
                          text |-> text, errtext |-> err, at |-> ""]

Err(e, at) == [kind |-> "Err", err |-> e.kind, msg |-> e.msg, result |-> FALSE,
               text |-> None, errtext |-> None, at |-> at]

Panic(msg, at) == [kind |-> "Panic", err |-> "", msg |-> msg, result |-> FALSE,
                   text |-> None, errtext |-> None, at |-> at]

\* a variant that takes an absent or non-text result for success
result_flag_defaults_true(data) ==
    LET result == get_string(data, S_result)
    IN  IF result # None THEN result[1] = S_zero ELSE TRUE

\* lib.rs 98-104, 121: "0" is success, anything else and absence are not
result_flag(data) ==
    LET result == get_string(data, S_result)
    IN  IF result # None THEN result[1] = S_zero ELSE FALSE

\* a variant that turns a remote failure into an error of the client
data_result_fails_remote(data) ==
    IF result_flag(data)
        THEN Ok(TRUE, get_string(data, S_text), get_string(data, S_err))
    ELSE Err([kind |-> "UnknownError", msg |-> "command failed"], "data")

\* lib.rs 120-124: a response with a _data table is a result, whatever it says
data_result(data) ==
    Ok(result_flag(data), get_string(data, S_text), get_string(data, S_err))

\* a variant that returns an empty failure result
no_data_is_empty_result == Ok(FALSE, None, None)

\* lib.rs 126-128: no _data table in the response
no_data_result == Err(decoding_error("Failed to parse status response"), "data")

\* lib.rs 93-128: decode the command response and read _data
command_result(res) ==
    LET resp == decode(res)
    IN  IF resp.st = "Panic" THEN Panic(resp.err, "decode")
        ELSE IF resp.st = "Err" THEN Err(decoding_error(resp.err), "decode")
        ELSE LET data == get_table(resp.val, S_data)
             IN  IF data # None THEN data_result(data[1]) ELSE no_data_result

\* ------------------------------------------------------------------------
\* The inputs of the model: the clients that RndcClient::new builds, the
\* commands, the clock and the random serials, and what the peer delivers.
\* ------------------------------------------------------------------------
MaxCalls == 2       \* rndc_command calls on the one client

S_status == <<115, 116, 97, 116, 117, 115>>    \* "status"
S_ok     == <<111, 107>>                       \* "ok"
S_failed == <<102, 97, 105, 108, 101, 100>>    \* "failed"
S_one    == <<49>>                             \* "1"
S_test   == <<116, 101, 115, 116>>             \* "test"
S_addr   == <<49, 50, 55, 46, 48, 46, 48, 46, 49, 58, 57, 53, 51>>  \* "127.0.0.1:953"

Clients ==
    { [server_url |-> S_addr, algorithm |-> a, secret_key |-> S_test] : a \in {"MD5", "SHA256"} }

Commands == { S_status }

\* get_timestamp(): the seconds since the epoch, cut to 32 bits
Times == { u32(1700000000), u32_MAX }

\* rand::random::<u32>()
Serials == { u32(0), u32_MAX }

\* the nonces the peer hands out: "7" and "42"
Nonces == { <<55>>, <<52, 50>> }

\* the peer's framing of a top-level table
server_frame(body) ==
    to_be_bytes(u32(Len(body) + 4)) \o to_be_bytes(u32(1)) \o body

server_reply(tbl) == server_frame(table_towire(tbl, TRUE))

HandshakeReplies ==
    { server_reply(<< <<S_ctrl, Table(<< <<S_nonce, Binary(n)>> >>)>> >>) : n \in Nonces }
    \cup
    { server_reply(<< <<S_ctrl, Binary(<<120>>)>> >>),
      server_reply(<< <<S_ctrl, Table(<< <<S_ser, Binary(S_one)>> >>)>> >>),
      server_reply(<< <<S_ctrl, Table(<< <<S_nonce, Binary(<<255>>)>> >>)>> >>),
      server_reply(<< <<S_ctrl, Table(<< <<S_nonce, Table(EmptyMap)>> >>)>> >>),
      server_reply(EmptyMap) }

CommandReplies ==
    { server_reply(<< <<S_data, Table(<< <<S_result, Binary(S_zero)>>,
                                         <<S_text, Binary(S_ok)>> >>)>> >>),
      server_reply(<< <<S_data, Table(<< <<S_result, Binary(S_one)>>,
                                         <<S_err, Binary(S_failed)>> >>)>> >>),
      server_reply(<< <<S_data, Table(EmptyMap)>> >>),
      server_reply(<< <<S_data, Table(<< <<S_text, Binary(S_ok)>> >>)>> >>),
      server_reply(<< <<S_data, Table(<< <<S_result, Binary(<<255>>)>>,
                                         <<S_text, Binary(<<255>>)>>,
                                         <<S_err, Table(EmptyMap)>> >>)>> >>),
      server_reply(<< <<S_data, Table(<< <<S_result, Table(EmptyMap)>>,
                                         <<S_text, List(<< >>)>> >>)>> >>),
      server_reply(<< <<S_data, Binary(<<120>>)>> >>),
      server_reply(<< <<S_data, List(<< Binary(S_zero) >>)>> >>) }

\* byte streams that are no well-formed message
MalformedReplies ==
    { << >>,                                           \* the peer closes at once
      <<0, 0, 0>>,                                     \* the header is cut
      <<0, 0, 0, 20, 0, 0, 0, 1, 1>>,                  \* the payload is cut
      <<0, 0, 0, 2, 0, 0, 0, 1>>,                      \* declared length below 4
      <<0, 0, 0, 4, 0, 0, 0, 2>>,                      \* version 2
      server_frame(<<1, 97, 9, 0, 0, 0, 0>>),          \* unknown type tag
      server_frame(<<5, 97>>),                         \* a key longer than the rest
      server_frame(<<1, 255, 1, 0, 0, 0, 0>>),         \* a key that is no UTF-8
      server_frame(<<1, 97, 1, 0, 0, 0, 5>>),          \* a value longer than the rest
      server_frame(<<5>> \o S_data
                   \o <<2, 0, 0, 0, 7, 1, 97, 1, 0, 0, 0, 9>>) }  \* the same, nested

Replies == HandshakeReplies \cup CommandReplies \cup MalformedReplies

IoErrors == { "none", "header", "payload" }

\* what a read_packet meets: every reply on a sound transport, and an error of
\* the transport under an empty message, a full one and a length below 4
Deliveries ==
    { <<r, "none">> : r \in Replies }
    \cup
    { <<r, e>> : r \in { server_reply(EmptyMap),
                         server_reply(<< <<S_ctrl, Table(<< <<S_nonce, Binary(<<55>>)>> >>)>> >>),
                         <<0, 0, 0, 2, 0, 0, 0, 1>> },
                e \in IoErrors \ { "none" } }

\* ------------------------------------------------------------------------
\* lib.rs: the session.  One step is one operation on the transport together
\* with the computation that follows it, up to the next such operation.
\* ------------------------------------------------------------------------
VARIABLES
    client,            \* the RndcClient: server_url, algorithm, secret_key
    overflow_checks,   \* whether the build panics on arithmetic overflow
    pc,                \* where rndc_command stands
    calls,             \* rndc_command calls begun
    command,           \* the command name of the running call
    stream,            \* the TcpStream of the running call, 0 if none
    conns,             \* connections opened so far
    nonce,             \* the nonce rndc_handshake returned
    msg,               \* the built message not yet written
    hs_res,            \* the handshake response read_packet returned
    res,               \* the command response read_packet returned
    outcome,           \* what the last call returned
    log,               \* the operations on the transport, in order
    constructed        \* the client as RndcClient::new returned it

\* A function of the crate applied to one input, apart from any session:
VARIABLES
    fn,                \* the function applied, "session" while a session runs
    arg,               \* its input
    ret                \* what it returned

session_vars == << client, overflow_checks, pc, calls, command, stream, conns, nonce, msg,
                   hs_res, res, outcome, log, constructed >>

vars == << session_vars, fn, arg, ret >>

\* an operation on the transport, or the decoding of the command response; a
\* write carries what the peer decodes of the message: its _data.type and its
\* _ctrl._nonce; the read of the handshake carries the nonce get_nonce took
Event(op, conn, ok, type, n) ==
    [op |-> op, call |-> calls, conn |-> conn, ok |-> ok, type |-> type, nonce |-> n]

peer_type(m) ==
    LET d == decode(m)
        data == IF d.st = "Ok" THEN get_table(d.val, S_data) ELSE None
        type == IF data # None THEN get_string(data[1], S_type) ELSE None
    IN  IF type # None THEN type[1] ELSE << >>

peer_nonce(m) ==
    LET d == decode(m)
        ctrl == IF d.st = "Ok" THEN get_table(d.val, S_ctrl) ELSE None
    IN  IF ctrl # None THEN get_string(ctrl[1], S_nonce) ELSE None

\* a variant that decodes right after the read and never shuts down
step_after_skips_close(p) ==
    CASE p = "hs_connect" -> "hs_write"
      [] p = "hs_write"   -> "hs_read"
      [] p = "hs_read"    -> "cmd_write"
      [] p = "cmd_write"  -> "cmd_read"
      [] p = "cmd_read"   -> "decode"
      [] p = "close"      -> "decode"

\* a variant that shuts down right after the command is written
step_after_closes_early(p) ==
    CASE p = "hs_connect" -> "hs_write"
      [] p = "hs_write"   -> "hs_read"
      [] p = "hs_read"    -> "cmd_write"
      [] p = "cmd_write"  -> "close"
      [] p = "close"      -> "cmd_read"
      [] p = "cmd_read"   -> "decode"

\* the order of the statements of rndc_handshake (62-69) and rndc_command (85-93)
step_after(p) ==
    CASE p = "hs_connect" -> "hs_write"
      [] p = "hs_write"   -> "hs_read"
      [] p = "hs_read"    -> "cmd_write"
      [] p = "cmd_write"  -> "cmd_read"
      [] p = "cmd_read"   -> "close"
      [] p = "close"      -> "decode"

\* a variant in which a call clears the key it has signed with
self_rekeyed(c) == [c EXCEPT !.secret_key = << >>]

\* rndc_command(&self, ..): the client is borrowed and comes back as it was
self_borrowed(c) == c

Init ==
    /\ client \in Clients
    /\ overflow_checks \in BOOLEAN
    /\ pc = "idle"
    /\ calls = 0
    /\ command = << >>
    /\ stream = 0
    /\ conns = 0
    /\ nonce = None
    /\ msg = << >>
    /\ hs_res = << >>
    /\ res = << >>
    /\ outcome = NoOutcome
    /\ log = << >>
    /\ constructed = client
    /\ fn = "session"
    /\ arg = << >>
    /\ ret = << >>

\* the call returns o, or the thread aborts: the stream, if any, is dropped
Return(o) ==
    /\ pc' = IF o.kind = "Panic" THEN "aborted" ELSE "idle"
    /\ outcome' = o
    /\ stream' = 0
    /\ msg' = << >>

\* a variant that tries the failed statement again
Fail_retries(e, at) ==
    /\ pc' = pc
    /\ UNCHANGED << outcome, stream, msg >>

\* a variant that drops the error and goes on
Fail_goes_on(e, at) ==
    /\ pc' = step_after(pc)
    /\ UNCHANGED << outcome, stream, msg >>

\* map_err(..)? : the error goes to the caller at once
Fail(e, at) == Return(Err(e, at))

\* the statement went through: on to the next one
Proceed ==
    /\ pc' = step_after(pc)
    /\ UNCHANGED << stream, outcome >>

\* rndc_command, rndc_handshake up to get_stream: the handshake message is built
Call(cmd, ser, now) ==
    /\ pc = "idle"
    /\ calls < MaxCalls
    /\ calls' = calls + 1
    /\ command' = cmd
    /\ nonce' = None
    /\ hs_res' = << >>
    /\ res' = << >>
    /\ LET m == build_message(S_null, client.algorithm, client.secret_key, None, ser, now,
                              overflow_checks)
       IN  IF m.st = "Panic" THEN Return(Panic(m.err, "build_message"))
           ELSE /\ pc' = "hs_connect"
                /\ msg' = m.val
                /\ outcome' = NoOutcome
                /\ stream' = 0
    /\ client' = self_borrowed(client)
    /\ UNCHANGED << overflow_checks, conns, log, constructed, fn, arg, ret >>

\* get_stream
Connect(ok) ==
    /\ pc = "hs_connect"
    /\ IF ok
           THEN /\ conns' = conns + 1
                /\ stream' = conns + 1
                /\ pc' = step_after(pc)
                /\ log' = Append(log, Event("connect", conns + 1, TRUE, << >>, None))
                /\ UNCHANGED << msg, outcome >>
       ELSE /\ Fail(network_error("Failed to connect to server"), "connect")
            /\ log' = Append(log, Event("connect", 0, FALSE, << >>, None))
            /\ UNCHANGED conns
    /\ UNCHANGED << constructed, fn, arg, ret >>
    /\ UNCHANGED << client, overflow_checks, calls, command, nonce, hs_res, res >>

\* rndc_handshake: write_all of the handshake message
HandshakeWrite(ok) ==
    /\ pc = "hs_write"
    /\ log' = Append(log, Event("write", stream, ok, peer_type(msg), peer_nonce(msg)))
    /\ IF ok
           THEN Proceed /\ msg' = << >>
       ELSE Fail(network_error("Failed to write to stream"), "hs_write")
    /\ UNCHANGED << constructed, fn, arg, ret >>
    /\ UNCHANGED << client, overflow_checks, calls, command, conns, nonce, hs_res, res >>

\* rndc_handshake: read_packet and get_nonce
HandshakeRead(avail, io_error) ==
    /\ pc = "hs_read"
    /\ LET r == read_packet(avail, io_error, overflow_checks)
           n == get_nonce(r.val)
       IN  IF r.st # "Ok"
               THEN /\ IF r.st = "Panic" THEN Return(Panic(r.err.msg, "hs_read"))
                       ELSE Fail(r.err, "hs_read")
                    /\ log' = Append(log, Event("read", stream, FALSE, << >>, None))
                    /\ UNCHANGED << nonce, hs_res >>
           ELSE /\ hs_res' = r.val
                /\ log' = Append(log, Event("read", stream, TRUE, << >>,
                                            IF n.st = "Ok" THEN Some(n.val) ELSE None))
                /\ IF n.st = "Panic"
                       THEN Return(Panic(n.err.msg, "get_nonce")) /\ UNCHANGED nonce
                   ELSE IF n.st = "Err"
                       THEN Fail(n.err, "get_nonce") /\ UNCHANGED nonce
                   ELSE Proceed /\ nonce' = Some(n.val) /\ UNCHANGED msg
    /\ UNCHANGED << constructed, fn, arg, ret >>
    /\ UNCHANGED << client, overflow_checks, calls, command, conns, res >>

\* rndc_command: build_message with the nonce, and write_all
CommandWrite(ser, now, ok) ==
    /\ pc = "cmd_write"
    /\ LET m == build_message(command, client.algorithm, client.secret_key, nonce, ser, now,
                              overflow_checks)
       IN  IF m.st = "Panic"
               THEN Return(Panic(m.err, "build_message")) /\ UNCHANGED log
           ELSE /\ log' = Append(log, Event("write", stream, ok, peer_type(m.val),
                                            peer_nonce(m.val)))
                /\ IF ok THEN Proceed /\ UNCHANGED msg
                   ELSE Fail(network_error("Failed to write to stream"), "cmd_write")
    /\ UNCHANGED << constructed, fn, arg, ret >>
    /\ UNCHANGED << client, overflow_checks, calls, command, conns, nonce, hs_res, res >>

\* rndc_command: read_packet of the command response
CommandRead(avail, io_error) ==
    /\ pc = "cmd_read"
    /\ LET r == read_packet(avail, io_error, overflow_checks)
       IN  IF r.st # "Ok"
               THEN /\ IF r.st = "Panic" THEN Return(Panic(r.err.msg, "cmd_read"))
                       ELSE Fail(r.err, "cmd_read")
                    /\ log' = Append(log, Event("read", stream, FALSE, << >>, None))
                    /\ UNCHANGED res
           ELSE /\ res' = r.val
                /\ log' = Append(log, Event("read", stream, TRUE, << >>, None))
                /\ Proceed /\ UNCHANGED msg
    /\ UNCHANGED << constructed, fn, arg, ret >>
    /\ UNCHANGED << client, overflow_checks, calls, command, conns, nonce, hs_res >>

\* a variant that goes on to decode whatever the shutdown returned
CloseStream_ignores_failure(ok) ==
    /\ pc = "close"
    /\ log' = Append(log, Event("shutdown", stream, ok, << >>, None))
    /\ Proceed /\ UNCHANGED msg
    /\ UNCHANGED << constructed, fn, arg, ret >>
    /\ UNCHANGED << client, overflow_checks, calls, command, conns, nonce, hs_res, res >>

\* close_stream: shutdown(Both)
CloseStream(ok) ==
    /\ pc = "close"
    /\ log' = Append(log, Event("shutdown", stream, ok, << >>, None))
    /\ IF ok THEN Proceed /\ UNCHANGED msg
       ELSE Fail(network_error("Failed to shutdown stream"), "close")
    /\ UNCHANGED << constructed, fn, arg, ret >>
    /\ UNCHANGED << client, overflow_checks, calls, command, conns, nonce, hs_res, res >>

\* rndc_command: decode of the command response, and the result
DecodeResponse ==
    /\ pc = "decode"
    /\ Return(command_result(res))
    /\ log' = Append(log, Event("decode", stream, TRUE, << >>, None))
    /\ UNCHANGED << constructed, fn, arg, ret >>
    /\ UNCHANGED << client, overflow_checks, calls, command, conns, nonce, hs_res, res >>

Next ==
    \/ \E cmd \in Commands, ser \in Serials, now \in Times : Call(cmd, ser, now)
    \/ \E ok \in BOOLEAN : Connect(ok)
    \/ \E ok \in BOOLEAN : HandshakeWrite(ok)
    \/ \E d \in Deliveries : HandshakeRead(d[1], d[2])
    \/ \E ser \in Serials, now \in Times, ok \in BOOLEAN : CommandWrite(ser, now, ok)
    \/ \E d \in Deliveries : CommandRead(d[1], d[2])
    \/ \E ok \in BOOLEAN : CloseStream(ok)
    \/ DecodeResponse

Spec == Init /\ [][Next]_vars

\* ------------------------------------------------------------------------
\* The functions of the crate, each applied once to one input.  No session
\* runs meanwhile: the session variables stay as a constructed client has them.
\* ------------------------------------------------------------------------
S_a == <<97>>                                  \* "a"
S_b == <<98>>                                  \* "b"
S_x == <<120>>                                 \* "x"

\* tables as a peer may send them
WireTables ==
    { EmptyMap,
      << <<S_a, Binary(S_x)>> >>,
      << <<S_a, Binary(<<255>>)>>, <<S_b, Binary(<< >>)>> >>,
      << <<S_data, Table(<< <<S_result, Binary(S_zero)>>, <<S_text, Binary(S_ok)>> >>)>> >>,
      << <<S_a, List(<< Binary(S_x), Table(<< <<S_b, Binary(<<255>>)>> >>), List(<< >>) >>)>>,
         <<S_b, Table(EmptyMap)>> >>,
      << <<(<< >>), Table(<< <<S_a, List(<< Binary(S_x) >>)>> >>)>> >> }

\* the bytes after the 8-byte header: tables, and bytes that are no table
WireBodies ==
    { table_towire(t, TRUE) : t \in WireTables }
    \cup
    { <<1, 97, 9, 0, 0, 0, 0>>,                        \* unknown type tag
      <<5, 97>>,                                       \* a key longer than the rest
      <<1, 255, 1, 0, 0, 0, 0>>,                       \* a key that is no UTF-8
      <<1, 97, 1, 0, 0>>,                              \* the length of a value is cut
      <<1, 97, 1, 0, 0, 0, 5>>,                        \* a value longer than the rest
      <<1, 97, 1, 0, 1, 0, 0>>,                        \* the same, by 2^16
      <<1, 97, 1, 0, 0, 0, 1, 120, 1, 97, 1, 0, 0, 0, 1, 121>> }   \* a key twice

\* the version fields: 0, 1, 2 and values that agree with 1 in some bytes only
WireVersions == { u32(0), u32(1), u32(2), <<0, 257>>, <<1, 1>>, <<256, 1>> }

\* the declared lengths for a body: right, off by one, and right in the low bytes only
Declared(body) ==
    { u32(Len(body) + 4 + k) : k \in {-1, 0, 1} } \cup { <<1, Len(body) + 4>> }

DecodeInputs ==
    { to_be_bytes(d[2]) \o to_be_bytes(v) \o d[1] :
        d \in UNION { { <<b, l>> : l \in Declared(b) } : b \in WireBodies },
        v \in WireVersions }
    \cup
    { << >>, <<0>>, <<0, 0, 0>>, <<0, 0, 0, 0>>, <<0, 0, 0, 3, 0, 0, 1>>,
      <<0, 0, 0, 2, 0, 0>>, <<0, 0, 0, 9, 0, 0, 0, 1>> }

MaxEntries == 2     \* entries of a message body given to encode

\* a key of the greatest length key_towire can write
Key255 == [i \in 1..255 |-> 107]

BodyKeys == { S_auth, S_data, S_a }

BodyValues ==
    { Binary(S_x),
      Binary(<<255>>),
      Table(<< <<S_auth, Binary(<< >>)>>,
               <<S_b, List(<< Binary(S_x), Table(EmptyMap) >>)>> >>),
      List(<< Table(<< <<S_a, Binary(<<255>>)>> >>), Binary(<< >>) >>) }

\* the tables of at most n entries with keys of BodyKeys and values of BodyValues
RECURSIVE BodiesOf(_)
BodiesOf(n) ==
    IF n = 0 THEN { EmptyMap }
    ELSE LET S == BodiesOf(n - 1)
         IN  S \cup { Append(mk[1], << mk[2], v >>) :
                         mk \in { y \in S \X BodyKeys :
                                     Len(y[1]) = n - 1 /\ ~map_has(y[1], y[2]) },
                         v \in BodyValues }

\* {"_data": {"type": "status"}}
StatusBody == << <<S_data, Table(<< <<S_type, Binary(S_status)>> >>)>> >>

\* bodies that bring an _auth of their own, first and in the middle
StaleAuthBodies ==
    { << <<S_auth, Table(<< <<S_hmd5, Binary(S_x)>> >>)>>,
         <<S_data, Table(<< <<S_type, Binary(S_status)>> >>)>>,
         <<S_a, Binary(<<255>>)>> >>,
      << <<S_ctrl, Table(<< <<S_ser, Binary(S_one)>> >>)>>,
         <<S_auth, Binary(S_x)>>,
         <<S_data, Table(<< <<S_type, Binary(S_status)>> >>)>> >> }

Bodies ==
    BodiesOf(MaxEntries)
    \cup StaleAuthBodies
    \cup { StatusBody,
           << <<Key255, Binary(S_x)>>, <<(<< >>), Table(<< <<Key255, List(<< >>)>> >>)>> >> }

\* every body under every algorithm, and an empty key under two of them
EncodeInputs ==
    (Bodies \X RndcAlg \X { S_test })
    \cup ({ StatusBody, EmptyMap } \X { "MD5", "SHA512" } \X { << >> })

\* the names given to RndcClient::new: the aliases, and names that are none
AlgNames ==
    { "md5", "hmd5", "hmac-md5", "sha1", "hsha1", "hmac-sha1",
      "sha224", "hsha224", "hmac-sha224", "sha256", "hsha256", "hmac-sha256",
      "sha384", "hsha384", "hmac-sha384", "sha512", "hsha512", "hmac-sha512" }
    \cup
    { "SHA256", "Md5", "HMAC-SHA1", "hmac_sha256", "sha-256", "sha", "sha2560", "hsha3", "" }

K_test     == <<100, 71, 86, 122, 100, 65, 61, 61>>     \* "dGVzdA==", the text of "test"
K_tes      == <<100, 71, 86, 122>>                      \* "dGVz", the text of "tes"
K_te       == <<100, 71, 85, 61>>                       \* "dGU=", the text of "te"
K_bin      == <<47, 43, 65, 61>>                        \* "/+A=", the text of 255, 224
K_unpadded == <<100, 71, 86, 122, 100, 65>>             \* "dGVzdA"
K_onepad   == <<100, 71, 86, 122, 100, 65, 61>>         \* "dGVzdA="
K_bits     == <<100, 71, 86, 122, 100, 66, 61, 61>>     \* "dGVzdB==", bits left over
K_bits1    == <<100, 71, 86, 61>>                       \* "dGV=", bits left over
K_symbol   == <<100, 71, 86, 33, 100, 65, 61, 61>>      \* "dGV!dA=="
K_urlsafe  == <<95, 45, 65, 61>>                        \* "_-A=", the URL-safe alphabet
K_midpad   == <<100, 71, 61, 61, 100, 71, 86, 122>>     \* "dG==dGVz"
K_pads     == <<61, 61, 61, 61>>                        \* "===="
K_threepad == <<100, 61, 61, 61>>                       \* "d==="

\* the key texts given to RndcClient::new
KeyTexts ==
    { << >>, K_test, K_tes, K_te, K_bin, K_unpadded, K_onepad, K_bits, K_bits1, K_symbol,
      K_urlsafe, K_midpad, K_pads, K_threepad }

NewInputs == { S_addr } \X AlgNames \X KeyTexts

\* what a stream holds when read_packet is called: the replies of the
\* session, declared lengths below 4 and near 2^32, and bytes behind the message
Streams ==
    Replies
    \cup { <<0, 0, 0, 0, 0, 0, 0, 1>>,
           <<0, 0, 0, 1, 0, 0, 0, 1, 7>>,
           <<0, 0, 0, 3, 0, 0, 0, 1>>,
           <<0, 0, 0, 5, 0, 0, 0, 1, 7, 8, 9>>,
           <<0, 0, 0, 6, 0, 0, 0, 1, 7>>,
           <<0, 1, 0, 5, 0, 0, 0, 1, 7>>,
           <<255, 255, 255, 255, 0, 0, 0, 1, 7>>,
           server_reply(<< <<S_a, Binary(S_x)>> >>) \o <<0, 0, 0, 4, 0, 0, 0, 1>> }

ReadInputs == Streams \X IoErrors \X BOOLEAN

\* the session of a client on which nothing was called
NoSession ==
    /\ client = [server_url |-> S_addr, algorithm |-> "MD5", secret_key |-> S_test]
    /\ constructed = client
    /\ overflow_checks = FALSE
    /\ pc = "idle"
    /\ calls = 0
    /\ command = << >>
    /\ stream = 0
    /\ conns = 0
    /\ nonce = None
    /\ msg = << >>
    /\ hs_res = << >>
    /\ res = << >>
    /\ outcome = NoOutcome
    /\ log = << >>

InitFn ==
    /\ NoSession
    /\ fn = "start"
    /\ arg = << >>
    /\ ret = << >>

\* f is applied to a and returns r
Apply(f, a, r) ==
    /\ fn = "start"
    /\ fn' = f
    /\ arg' = a
    /\ ret' = r
    /\ UNCHANGED session_vars

\* decoder.rs decode
Decode(buf) == Apply("decode", buf, decode(buf))

\* encoder.rs encode: a[1] is the body, a[2] the algorithm, a[3] the key
Encode(a) == Apply("encode", a, encode(a[1], a[2], a[3]))

\* lib.rs RndcClient::new: a[1] is the address, a[2] the name, a[3] the key text
New(a) == Apply("new", a, new(a[1], a[2], a[3]))

\* lib.rs read_packet: a[1] is what the stream holds, a[2] the error of the
\* transport, a[3] whether the build checks overflow
ReadPacket(a) == Apply("read_packet", a, read_packet(a[1], a[2], a[3]))

\* the payloads of a nested table: entries that end with the payload, an
\* entry cut short, a key and a value that declare more than the payload has
ScopePayloads ==
    { << >>,
      <<1, 97, 1, 0, 0, 0, 1, 120>>,
      <<1, 97, 1, 0, 0, 0, 1, 120, 1, 98, 0, 0, 0, 0, 0>>,
      <<1, 97, 2, 0, 0, 0, 8, 1, 98, 1, 0, 0, 0, 1, 121>>,
      <<1, 97, 3, 0, 0, 0, 6, 1, 0, 0, 0, 1, 121>>,
      <<1, 97, 1, 0, 0>>,
      <<1, 97>>,
      <<5, 97, 98>>,
      <<1, 97, 9, 0, 0, 0, 0>>,
      <<1, 97, 1, 0, 0, 0, 3, 120>>,
      <<1, 97, 2, 0, 0, 0, 9, 1, 98, 1, 0, 0, 0, 1, 121>> }

\* the payloads of a nested list
ScopeItems ==
    { << >>,
      <<1, 0, 0, 0, 1, 120>>,
      <<1, 0, 0, 0, 1, 120, 0, 0, 0, 0, 0>>,
      <<3, 0, 0, 0, 6, 1, 0, 0, 0, 1, 121>>,
      <<2, 0, 0, 0, 8, 1, 98, 1, 0, 0, 0, 1, 121>>,
      <<1, 0, 0>>,
      <<9, 0, 0, 0, 0>>,
      <<1, 0, 0, 0, 3, 120>>,
      <<3, 0, 0, 0, 7, 1, 0, 0, 0, 1, 121>> }

\* what the enclosing buffer holds behind the nested value
ScopeRest ==
    { << >>,
      <<1, 99, 1, 0, 0, 0, 1, 122>>,
      <<121, 122, 1, 0, 0, 0, 1, 122, 122>> }

\* a nested value whose declared length is its payload, and the rest
ScopeInputs ==
    { raw_towire(MSGTYPE_TABLE, pl) \o rest : pl \in ScopePayloads, rest \in ScopeRest }
        \cup { raw_towire(MSGTYPE_LIST, pl) \o rest : pl \in ScopeItems, rest \in ScopeRest }

\* decoder.rs value_fromwire on a cursor at the start of buf
ValueFromwire(buf) == Apply("value_fromwire", buf, value_fromwire(buf, 0, Len(buf)))

\* what get_timestamp can return: the u32 range with both of its ends and
\* the last value whose expiry is still a u32
BuildTimes ==
    { u32(0), u32(1700000000), << Half - 1, Half - 1 - ExpiryWindow >>,
      << Half - 1, Half - ExpiryWindow >>, u32_MAX }

\* command, algorithm, key, nonce, serial, clock and build profile
BuildInputs ==
    {S_status, S_a} \X {"MD5", "SHA256"} \X {S_test}
        \X ({None} \cup {Some(n) : n \in Nonces}) \X Serials \X BuildTimes \X BOOLEAN

\* lib.rs build_message: a[6] is what get_timestamp returns, a[7] the build
BuildMessage(a) ==
    Apply("build_message", a, build_message(a[1], a[2], a[3], a[4], a[5], a[6], a[7]))

\* entries as a peer may send them: keys that come again, as deep as a nested table
WireEntry ==
    {S_a, S_b} \X { Binary(S_x), Binary(S_test),
                    Table(<< <<S_a, Binary(S_x)>>, <<S_b, Binary(S_x)>>,
                             <<S_a, Binary(S_test)>> >>) }

RECURSIVE WireEntriesOf(_)
WireEntriesOf(n) ==
    IF n = 0 THEN { << >> }
    ELSE WireEntriesOf(n - 1)
            \cup { Append(es, e) : es \in { x \in WireEntriesOf(n - 1) : Len(x) = n - 1 },
                                   e \in WireEntry }

\* the entries and the payload bytes that carry them in this order
TableInputs == { << es, table_towire(es, TRUE) >> : es \in WireEntriesOf(MaxEntries + 1) }

\* decoder.rs table_fromwire on a cursor over the payload bytes a[2]
TableFromwire(a) == Apply("table_fromwire", a, table_fromwire(a[2], 0, Len(a[2]), EmptyMap))

NextFn ==
    \/ \E buf \in DecodeInputs : Decode(buf)
    \/ \E a \in TableInputs : TableFromwire(a)
    \/ \E a \in BuildInputs : BuildMessage(a)
    \/ \E buf \in ScopeInputs : ValueFromwire(buf)
    \/ \E a \in EncodeInputs : Encode(a)
    \/ \E a \in NewInputs : New(a)
    \/ \E a \in ReadInputs : ReadPacket(a)

SpecFn == InitFn /\ [][NextFn]_vars

\* ------------------------------------------------------------------------
\* The claims.
\* ------------------------------------------------------------------------
Events == DOMAIN log

\* the last operation logged belongs to the running (or last) call and is op
LastIs(op) == Len(log) > 0 /\ log[Len(log)].op = op /\ log[Len(log)].call = calls

\* the number of logged operations of call c that satisfy P
Count(c, P(_)) == Cardinality({ i \in Events : log[i].call = c /\ P(log[i]) })

IsWrite(e)          == e.op = "write"
IsHandshakeWrite(e) == e.op = "write" /\ e.type = S_null /\ e.nonce = None
IsCommandWrite(e)   == e.op = "write" /\ ~(e.type = S_null /\ e.nonce = None)
IsRead(e)           == e.op = "read"
IsConnect(e)        == e.op = "connect"
IsOpened(e)         == e.op = "connect" /\ e.ok
IsShutdown(e)       == e.op = "shutdown"
IsDecode(e)         == e.op = "decode"

\* the entries of the table under key k of the decoded packet, if it decodes
\* to a message that has a table there
TableOf(packet, k) ==
    LET d == decode(packet)
    IN  IF d.st = "Ok" /\ map_has(d.val, k) /\ map_get(d.val, k).t = "Table"
            THEN Some(map_get(d.val, k).v)
        ELSE None

\* the text under key k of the table entries m, if there is one
TextOf(m, k) ==
    IF map_has(m, k) /\ map_get(m, k).t = "String" THEN Some(map_get(m, k).v) ELSE None

\* a decoded tree as decode gives it for an encoded one: every Binary whose
\* bytes are well-formed UTF-8 is a String
RECURSIVE AsDecoded(_)
AsDecoded(val) ==
    IF val.t = "Table"
        THEN Table([i \in 1..Len(val.v) |-> << val.v[i][1], AsDecoded(val.v[i][2]) >>])
    ELSE IF val.t = "List"
        THEN List([i \in 1..Len(val.v) |-> AsDecoded(val.v[i])])
    ELSE IF is_utf8(val.v) THEN String(val.v)
    ELSE Binary(val.v)

\* the big-endian number in the bytes i+1..i+4 of b, as a u32
WordAt(b, i) == << b[i + 1] * 256 + b[i + 2], b[i + 3] * 256 + b[i + 4] >>

\* C1: a command message is written only after, on the same connection of the
\* same call, a handshake message (command "null", no _nonce) was written and
\* its response was read and gave a text nonce; the command message carries
\* exactly that nonce; no command is built before the nonce is there.
C1_CommandAfterHandshake ==
    /\ \A i \in Events :
          IsCommandWrite(log[i]) =>
             \E j \in 1..(i - 1), k \in 1..(i - 1) :
                /\ j < k
                /\ IsHandshakeWrite(log[j]) /\ log[j].ok
                /\ log[j].call = log[i].call /\ log[j].conn = log[i].conn
                /\ IsRead(log[k]) /\ log[k].ok /\ log[k].nonce # None
                /\ log[k].call = log[i].call /\ log[k].conn = log[i].conn
                /\ log[i].nonce = log[k].nonce
    /\ pc \in {"cmd_write", "cmd_read", "close", "decode"} =>
          /\ nonce # None
          /\ \E k \in Events : /\ IsRead(log[k]) /\ log[k].call = calls
                               /\ log[k].conn = stream /\ log[k].nonce = nonce

C1_Witness ==
    \E i \in Events : /\ IsCommandWrite(log[i]) /\ log[i].ok
                      /\ log[i].type = S_status /\ log[i].nonce = Some(<<52, 50>>)

\* C2: a handshake response that decodes but has no _ctrl table, no _nonce in
\* it, or a _nonce that is no text, makes the call fail with DecodingError
\* "RNDC nonce not received"; no nonce is taken and no command is written.
C2_LacksTextNonce(packet) ==
    LET d == decode(packet)
    IN  /\ d.st = "Ok"
        /\ \/ ~map_has(d.val, S_ctrl)
           \/ map_get(d.val, S_ctrl).t # "Table"
           \/ TextOf(map_get(d.val, S_ctrl).v, S_nonce) = None

C2_MissingNonceFails ==
    (hs_res # << >> /\ C2_LacksTextNonce(hs_res)) =>
        /\ pc = "idle"
        /\ outcome.kind = "Err" /\ outcome.err = "DecodingError"
        /\ outcome.msg = "RNDC nonce not received"
        /\ nonce = None
        /\ Count(calls, IsCommandWrite) = 0
        /\ Count(calls, IsWrite) = 1
        /\ LastIs("read")

C2_Witness ==
    /\ hs_res # << >> /\ decode(hs_res).st = "Ok"
    /\ TableOf(hs_res, S_ctrl) # None
    /\ map_has(TableOf(hs_res, S_ctrl)[1], S_nonce)
    /\ TextOf(TableOf(hs_res, S_ctrl)[1], S_nonce) = None
    /\ outcome.err = "DecodingError"

\* C3: when the decoded command response has a _data table, the result flag
\* is true exactly when _data.result is a text equal to "0", text is
\* _data.text when that is a text and None otherwise, err likewise.
C3_ResultFields ==
    (pc = "idle" /\ LastIs("decode") /\ TableOf(res, S_data) # None) =>
        LET data == TableOf(res, S_data)[1]
        IN  /\ outcome.result = ( /\ map_has(data, S_result)
                                  /\ map_get(data, S_result).t = "String"
                                  /\ map_get(data, S_result).v = <<48>> )
            /\ outcome.text = TextOf(data, S_text)
            /\ outcome.errtext = TextOf(data, S_err)
            /\ (data = << <<S_result, String(S_zero)>>, <<S_text, String(S_ok)>> >>)
                  => (outcome.result /\ outcome.text = Some(S_ok) /\ outcome.errtext = None)
            /\ (data = << <<S_result, String(S_one)>>, <<S_err, String(S_failed)>> >>)
                  => (~outcome.result /\ outcome.text = None
                      /\ outcome.errtext = Some(S_failed))

C3_Witness ==
    /\ pc = "idle" /\ LastIs("decode")
    /\ TableOf(res, S_data) = Some(<< <<S_result, String(S_zero)>>, <<S_text, String(S_ok)>> >>)
    /\ outcome.result /\ outcome.text = Some(S_ok)

\* C4: a remote failure is no error of the client: when the command response
\* was decoded to a message with a _data table the call returns a result,
\* whatever _data.result is; an error it returns is a NetworkError, an
\* EncodingError or a DecodingError.
C4_RemoteFailureIsOk ==
    /\ (pc = "idle" /\ LastIs("decode") /\ TableOf(res, S_data) # None) =>
           outcome.kind = "Ok"
    /\ outcome.kind = "Err" =>
           outcome.err \in {"NetworkError", "EncodingError", "DecodingError"}

C4_Witness ==
    /\ pc = "idle" /\ LastIs("decode")
    /\ TableOf(res, S_data) # None
    /\ TextOf(TableOf(res, S_data)[1], S_result) = Some(S_one)
    /\ outcome.kind = "Ok" /\ ~outcome.result /\ outcome.errtext = Some(S_failed)

\* C5: a command response that decodes but has no _data entry, or a _data
\* that is no table, makes the call fail with DecodingError: no result.
C5_NoDataFails ==
    (LastIs("decode") /\ decode(res).st = "Ok" /\ TableOf(res, S_data) = None) =>
        /\ pc = "idle"
        /\ outcome.kind = "Err" /\ outcome.err = "DecodingError"
        /\ outcome.msg = "Failed to parse status response"

C5_Witness ==
    /\ LastIs("decode") /\ decode(res).st = "Ok"
    /\ map_has(decode(res).val, S_data)
    /\ map_get(decode(res).val, S_data).t = "String"
    /\ outcome.err = "DecodingError"

\* C6: once the command response has been read, shutdown is called on the
\* stream of the call before anything else happens, so the transport is shut
\* down whether the decoding that follows succeeds or fails.
C6_ShutdownAfterRead ==
    /\ (res # << >> /\ pc # "close") =>
           \E i \in Events : /\ IsShutdown(log[i]) /\ log[i].call = calls
                             /\ \E k \in 1..(i - 1) : /\ IsOpened(log[k])
                                                      /\ log[k].call = calls
                                                      /\ log[k].conn = log[i].conn
    /\ \A i \in Events :
          IsDecode(log[i]) =>
             \E j \in 1..(i - 1) : /\ IsShutdown(log[j]) /\ log[j].ok
                                   /\ log[j].call = log[i].call

C6_Witness ==
    /\ LastIs("decode") /\ pc = "idle"
    /\ outcome.kind = "Err" /\ outcome.at = "decode"
    /\ \E i \in Events : IsShutdown(log[i]) /\ log[i].ok /\ log[i].call = calls

Returned(c) == c < calls \/ (c = calls /\ pc = "idle")

\* what C8 says of a connection beyond their number: every operation of a
\* call goes to the connection that call opened, which is a new one; there
\* is at most one command, at most two writes and two framed reads; a
\* message that carries a nonce carries the one read on its own connection,
\* and a connection sees at most one such message
C8_OneSessionPerConnection(c) ==
    /\ \A i \in Events :
          (log[i].call = c /\ ~IsConnect(log[i])) =>
              \E k \in 1..(i - 1) : /\ IsOpened(log[k]) /\ log[k].call = c
                                    /\ log[k].conn = log[i].conn
    /\ \A k \in Events :
          (log[k].call = c /\ IsOpened(log[k])) =>
              \A j \in 1..(k - 1) : log[j].conn # log[k].conn
    /\ Count(c, IsHandshakeWrite) <= 1
    /\ Count(c, IsCommandWrite) <= 1
    /\ Count(c, IsWrite) <= 2
    /\ Count(c, IsRead) <= 2
    /\ \A i \in Events :
          (log[i].call = c /\ IsWrite(log[i]) /\ log[i].nonce # None) =>
              /\ \E k \in 1..(i - 1) : /\ IsRead(log[k]) /\ log[k].conn = log[i].conn
                                       /\ log[k].nonce = log[i].nonce
              /\ \A j \in Events :
                    (IsWrite(log[j]) /\ log[j].nonce # None /\ log[j].conn = log[i].conn)
                        => j = i

\* C8, as the specification states it: every call opens exactly one new
\* connection and performs exactly one handshake and at most one command on
\* it, with at most two writes and two reads, and no nonce is used twice or
\* on another connection.
C8_ExactlyOneConnection ==
    \A c \in 1..calls :
        /\ C8_OneSessionPerConnection(c)
        /\ Returned(c) => /\ Count(c, IsOpened) = 1
                          /\ Count(c, IsHandshakeWrite) = 1

\* C8, as the code has it: every call that returns has tried to connect
\* exactly once and no call tries twice, so a call opens at most one
\* connection (none when the connect fails); a connection that was opened
\* gets exactly one handshake message; the rest is as stated.
C8_AtMostOneConnection ==
    \A c \in 1..calls :
        /\ C8_OneSessionPerConnection(c)
        /\ Count(c, IsConnect) <= 1
        /\ Returned(c) => Count(c, IsConnect) = 1
        /\ (Count(c, IsOpened) = 1 /\ (c < calls \/ pc # "hs_write")) =>
               Count(c, IsHandshakeWrite) = 1
        /\ Count(c, IsOpened) = 0 => Count(c, IsWrite) + Count(c, IsRead) = 0

C8_Witness ==
    /\ calls = 2 /\ pc = "idle" /\ outcome.kind = "Ok" /\ conns = 2
    /\ Count(1, IsCommandWrite) = 1 /\ Count(2, IsCommandWrite) = 1
    /\ \E i \in Events, j \in Events :
          /\ IsCommandWrite(log[i]) /\ IsCommandWrite(log[j])
          /\ log[i].conn # log[j].conn /\ log[i].nonce = log[j].nonce

\* C9: decode never aborts: every buffer handed to it, also one with a
\* length that runs past the end or an unknown tag, gives a table or a
\* decoding error, and the call returns.
C9_DecodeNeverAborts ==
    /\ hs_res # << >> => decode(hs_res).st \in {"Ok", "Err"}
    /\ LastIs("decode") => decode(res).st \in {"Ok", "Err"}
    /\ pc = "aborted" => outcome.at \notin {"get_nonce", "decode"}

C11_DecodeHeader ==
    fn = "decode" =>
        LET n == Len(arg)
            lengthRight == n >= 4 /\ WordAt(arg, 0) = << 0, n - 4 >>
        IN  /\ n < 4 => ret.st = "Err"
            /\ (n >= 4 /\ ~lengthRight) =>
                   (ret.st = "Err" /\ ret.err = "RNDC buffer length mismatch")
            /\ (lengthRight /\ n < 8) => ret.st = "Err"
            /\ (lengthRight /\ n >= 8 /\ WordAt(arg, 4) # <<0, 1>>) =>
                   (ret.st = "Err" /\ ret.err = "Unknown RNDC protocol version")
            /\ (lengthRight /\ n >= 8 /\ WordAt(arg, 4) = <<0, 1>>) =>
                   /\ ret = table_fromwire(arg, 8, n, EmptyMap)
                   /\ \A t \in WireTables :
                         SubBytes(arg, 8, n) = table_towire(t, TRUE) =>
                             (ret.st = "Ok" /\ Table(ret.val) = AsDecoded(Table(t)))

\* a length that is right under a version that is 1 in its last byte only
C11_Witness ==
    /\ fn = "decode" /\ Len(arg) > 8
    /\ WordAt(arg, 0) = << 0, Len(arg) - 4 >>
    /\ WordAt(arg, 4) = <<256, 1>>
    /\ ret.st = "Err" /\ ret.err = "Unknown RNDC protocol version"

\* the entries of a body that are not its top-level _auth, in their order
WithoutAuth(body) == SelectSeq(body, LAMBDA e : e[1] # S_auth)

\* C12: round trip: decode of encode(body, algorithm, secret) succeeds and
\* gives _auth first and then the entries of the body in their order, each
\* as encoded except that a Binary of well-formed UTF-8 comes back as a
\* String; {"_data": {"type": "status"}} under SHA256 gives an _auth.hsha of
\* 89 bytes that is a Binary and a _data.type that is the String "status".
C12_RoundTrip ==
    fn = "encode" =>
        LET kept == WithoutAuth(arg[1])
            d    == decode(ret.val)
        IN  /\ ret.st = "Ok"
            /\ d.st = "Ok"
            /\ Len(d.val) = 1 + Len(kept)
            /\ d.val[1][1] = S_auth
            /\ d.val[1][2].t = "Table"
            /\ \A i \in 1..Len(kept) :
                  d.val[i + 1] = << kept[i][1], AsDecoded(kept[i][2]) >>
            /\ (arg[1] = StatusBody /\ arg[2] = "SHA256") =>
                  /\ d.val[1][2].v[1][1] = S_hsha
                  /\ d.val[1][2].v[1][2].t = "Binary"
                  /\ Len(d.val[1][2].v[1][2].v) = 89
                  /\ d.val[2] = << S_data, Table(<< <<S_type, String(S_status)>> >>) >>

\* a body with a text and a non-text Binary: the one comes back as a String,
\* the other as it was
C12_Witness ==
    /\ fn = "encode" /\ ret.st = "Ok"
    /\ arg[1] = << <<S_data, Binary(S_x)>>, <<S_a, Binary(<<255>>)>> >>
    /\ decode(ret.val).val[2] = << S_data, String(S_x) >>
    /\ decode(ret.val).val[3] = << S_a, Binary(<<255>>) >>

\* C13: a top-level _auth of the body, wherever it stands, does not count:
\* encode gives the very bytes, hence the digest, that it gives for the body
\* without that entry; the output has one _auth, which is not the caller's,
\* and the other entries in their order.
C13_StaleAuthIgnored ==
    fn = "encode" =>
        LET kept == WithoutAuth(arg[1])
            d    == decode(ret.val)
        IN  /\ ret = encode(kept, arg[2], arg[3])
            /\ ret.st = "Ok" /\ d.st = "Ok"
            /\ [i \in 1..Len(d.val) |-> d.val[i][1]]
                  = << S_auth >> \o [i \in 1..Len(kept) |-> kept[i][1]]
            /\ d.val[1][2] = AsDecoded(make_signature(arg[2], arg[3], kept).val)

\* a body whose first entry is a stale _auth, before two more entries
C13_Witness ==
    /\ fn = "encode" /\ ret.st = "Ok"
    /\ Len(arg[1]) = 3 /\ arg[1][1][1] = S_auth
    /\ arg[2] = "SHA256"
    /\ decode(ret.val).val[1][2] # AsDecoded(arg[1][1][2])
    /\ decode(ret.val).val[2][1] = S_data

\* the one entry of the _auth table of an encoded message: its name and the
\* bytes of its value
AuthEntry(m) ==
    LET auth == decode(m).val[1][2].v
    IN  [n |-> Len(auth), name |-> auth[1][1], bytes |-> auth[1][2].v]

\* C14: for MD5 the auth entry is hmd5 and holds the base64 text of the
\* digest without its trailing '='; for the SHA algorithms it is hsha and
\* holds 89 bytes: the code 161, 162, 163, 164 or 165, the padded base64
\* text of the digest, and zeros; the text always fits the 88 bytes.
C14_SignaturePacking ==
    fn = "encode" =>
        LET e      == AuthEntry(ret.val)
            digest == hmac_digest(arg[2], arg[3], table_towire(WithoutAuth(arg[1]), TRUE))
            text   == base64_encode(digest)
            code   == CASE arg[2] = "SHA1"   -> 161
                        [] arg[2] = "SHA224" -> 162
                        [] arg[2] = "SHA256" -> 163
                        [] arg[2] = "SHA384" -> 164
                        [] arg[2] = "SHA512" -> 165
                        [] OTHER             -> 0
        IN  /\ ret.st = "Ok"
            /\ e.n = 1
            /\ Len(text) = 4 * ((Len(digest) + 2) \div 3)
            /\ IF arg[2] = "MD5"
                   THEN /\ e.name = S_hmd5
                        /\ Len(e.bytes) <= Len(text)
                        /\ e.bytes = SubBytes(text, 0, Len(e.bytes))
                        /\ \A i \in (Len(e.bytes) + 1)..Len(text) : text[i] = 61
                        /\ Len(e.bytes) > 0 => e.bytes[Len(e.bytes)] # 61
                   ELSE /\ e.name = S_hsha
                        /\ Len(e.bytes) = 89
                        /\ e.bytes[1] = code
                        /\ Len(text) <= 88
                        /\ SubBytes(e.bytes, 1, 1 + Len(text)) = text
                        /\ \A i \in (2 + Len(text))..89 : e.bytes[i] = 0

\* SHA224: a padded text of 40 bytes behind the code 162, then zeros
C14_Witness ==
    /\ fn = "encode" /\ ret.st = "Ok" /\ arg[2] = "SHA224"
    /\ AuthEntry(ret.val).bytes[1] = 162
    /\ AuthEntry(ret.val).bytes[41] = 61
    /\ AuthEntry(ret.val).bytes[42] = 0

\* the 18 names of the algorithm table and what each stands for
AliasOf(name) ==
    CASE name \in {"md5", "hmd5", "hmac-md5"}          -> "MD5"
      [] name \in {"sha1", "hsha1", "hmac-sha1"}       -> "SHA1"
      [] name \in {"sha224", "hsha224", "hmac-sha224"} -> "SHA224"
      [] name \in {"sha256", "hsha256", "hmac-sha256"} -> "SHA256"
      [] name \in {"sha384", "hsha384", "hmac-sha384"} -> "SHA384"
      [] name \in {"sha512", "hsha512", "hmac-sha512"} -> "SHA512"
      [] OTHER                                         -> "none"

\* the key texts that are padded standard base64, with the bytes they stand for
KeyOf(text) ==
    CASE text = << >>  -> Some(<< >>)
      [] text = K_test -> Some(<<116, 101, 115, 116>>)
      [] text = K_tes  -> Some(<<116, 101, 115>>)
      [] text = K_te   -> Some(<<116, 101>>)
      [] text = K_bin  -> Some(<<255, 224>>)
      [] OTHER         -> None

\* C15, as the specification states it: new fails with InvalidAlgorithm
\* whenever the name is none of the 18 aliases, with Base64DecodeError
\* whenever the key text is no padded standard base64, and gives the client
\* with the mapped algorithm and the decoded key otherwise.
C15_ErrorPerArgument ==
    fn = "new" =>
        /\ AliasOf(arg[2]) = "none" =>
               (ret.st = "Err" /\ ret.err.kind = "InvalidAlgorithm")
        /\ KeyOf(arg[3]) = None =>
               (ret.st = "Err" /\ ret.err.kind = "Base64DecodeError")
        /\ (AliasOf(arg[2]) # "none" /\ KeyOf(arg[3]) # None) =>
               /\ ret.st = "Ok"
               /\ ret.val = [server_url |-> arg[1], algorithm |-> AliasOf(arg[2]),
                              secret_key |-> KeyOf(arg[3])[1]]

\* C15, as the code has it: the key text is looked at first: new fails with
\* Base64DecodeError whenever it is no padded standard base64, whatever the
\* name is; with InvalidAlgorithm whenever the key text is sound and the name
\* is none of the 18 aliases, a name in another case included; and gives
\* the client with the mapped algorithm and the decoded key otherwise.
C15_KeyErrorFirst ==
    fn = "new" =>
        /\ KeyOf(arg[3]) = None =>
               (ret.st = "Err" /\ ret.err.kind = "Base64DecodeError")
        /\ (KeyOf(arg[3]) # None /\ AliasOf(arg[2]) = "none") =>
               (ret.st = "Err" /\ ret.err.kind = "InvalidAlgorithm")
        /\ (AliasOf(arg[2]) # "none" /\ KeyOf(arg[3]) # None) =>
               /\ ret.st = "Ok"
               /\ ret.val = [server_url |-> arg[1], algorithm |-> AliasOf(arg[2]),
                              secret_key |-> KeyOf(arg[3])[1]]

\* "SHA256" with an unpadded key text: both are wrong, the key is reported
C15_Witness ==
    /\ fn = "new" /\ arg[2] = "SHA256" /\ arg[3] = K_unpadded
    /\ ret.st = "Err" /\ ret.err.kind = "Base64DecodeError"

\* the bytes of an encoded message behind its _auth entry
BodyBytes(m) == SubBytes(m, 19 + WordAt(m, 15)[2], Len(m))

\* the value of the auth entry for a digest, as BIND expects it
PackedDigest(algorithm, digest) ==
    IF algorithm = "MD5" THEN SubBytes(base64_encode(digest), 0, 22)
    ELSE << alg_code(algorithm) >> \o base64_encode(digest)
         \o Zeros(88 - Len(base64_encode(digest)))

\* whether the message m carries the signature that the key and the
\* algorithm give for the bytes behind its _auth entry
SignedWith(m, algorithm, secret) ==
    /\ AuthEntry(m).name = (IF algorithm = "MD5" THEN S_hmd5 ELSE S_hsha)
    /\ AuthEntry(m).bytes = PackedDigest(algorithm, hmac_digest(algorithm, secret, BodyBytes(m)))

\* C16: the algorithm, the key and the address of a client are what new
\* gave it, whatever calls were made and however they ended, and every call
\* signs its handshake message with that key and that algorithm.
C16_ClientUnchanged ==
    /\ client = constructed
    /\ msg # << >> => SignedWith(msg, constructed.algorithm, constructed.secret_key)

\* the second call, after a first one that failed, has built its message
C16_Witness ==
    /\ calls = 2 /\ pc = "hs_connect" /\ msg # << >>
    /\ \E i \in Events : log[i].call = 1 /\ ~log[i].ok
    /\ SignedWith(msg, constructed.algorithm, constructed.secret_key)
    /\ constructed.algorithm = "SHA256"

\* C17: for every header of 8 bytes that arrives, with any declared length
\* from 0 to 2^32 - 1, read_packet returns the header and the declared
\* length - 4 bytes behind it, which decode takes as of the right length, or
\* a NetworkError; a declared length below 4 is no exception: it ends in
\* neither a panic nor a read of a wrapped length.
C17_FramingTotal ==
    (fn = "read_packet" /\ arg[2] # "header" /\ Len(arg[1]) >= 8) =>
        LET declared == WordAt(arg[1], 0)
        IN  /\ ret.st \in {"Ok", "Err"}
            /\ ret.st = "Err" => ret.err.kind = "NetworkError"
            /\ ret.st = "Ok" =>
                  /\ declared[1] = 0 /\ declared[2] >= 4
                  /\ ret.val = SubBytes(arg[1], 0, declared[2] + 4)
                  /\ decode(ret.val).err # "RNDC buffer length mismatch"
            /\ (declared[1] = 0 /\ declared[2] < 4) => ret.st = "Err"

\* C18: an encoded message is the length in 4 bytes, the version 1 in 4
\* bytes, the headerless encoding of {_auth: authBlock} and the headerless
\* encoding of the body, in this order; the length is 4 + the auth bytes +
\* the body bytes, the number of bytes behind the length field; the digest
\* in the auth block is taken over the very body bytes that are emitted.
C18_Envelope ==
    fn = "encode" =>
        LET out       == ret.val
            bodyBytes == table_towire(WithoutAuth(arg[1]), TRUE)
            authBlock == Table(<< << IF arg[2] = "MD5" THEN S_hmd5 ELSE S_hsha,
                                     Binary(PackedDigest(arg[2],
                                               hmac_digest(arg[2], arg[3], bodyBytes))) >> >>)
            authBytes == table_towire(<< <<S_auth, authBlock>> >>, TRUE)
        IN  /\ ret.st = "Ok"
            /\ Len(out) = 8 + Len(authBytes) + Len(bodyBytes)
            /\ WordAt(out, 0) = << 0, 4 + Len(authBytes) + Len(bodyBytes) >>
            /\ WordAt(out, 0) = << 0, Len(out) - 4 >>
            /\ WordAt(out, 4) = << 0, 1 >>
            /\ SubBytes(out, 8, 8 + Len(authBytes)) = authBytes
            /\ SubBytes(out, 8 + Len(authBytes), Len(out)) = bodyBytes
            /\ SignedWith(out, arg[2], arg[3])

\* the status body under MD5: its 27 bytes stand behind the auth entry
C18_Witness ==
    /\ fn = "encode" /\ ret.st = "Ok"
    /\ arg[1] = StatusBody /\ arg[2] = "MD5" /\ arg[3] = S_test
    /\ WordAt(ret.val, 0) = << 0, Len(ret.val) - 4 >>
    /\ BodyBytes(ret.val) = table_towire(StatusBody, TRUE)
    /\ Len(BodyBytes(ret.val)) = 27

\* the declared length of the value at the start of buf
DeclaredLength(buf) == WordAt(buf, 1)[2]

\* C19: a nested Table or List is parsed from its declaredLength payload
\* bytes alone, so the bytes of the enclosing buffer behind them change
\* nothing of its result, and whether the inner parse succeeds or fails the
\* enclosing cursor is left declaredLength bytes behind the 5-byte prefix.
C19_NestedScope ==
    fn = "value_fromwire" =>
        LET alone == value_fromwire(SubBytes(arg, 0, 5 + DeclaredLength(arg)),
                                    0, 5 + DeclaredLength(arg))
        IN  /\ ret.st \in {"Ok", "Err"}
            /\ ret.pos = 5 + DeclaredLength(arg)
            /\ ret = alone

\* C19, apart from the abort: whenever the nested value returns at all
C19_NestedScopeOnReturn ==
    (fn = "value_fromwire" /\ ret.st # "Panic") =>
        /\ ret.pos = 5 + DeclaredLength(arg)
        /\ ret = value_fromwire(SubBytes(arg, 0, 5 + DeclaredLength(arg)),
                                0, 5 + DeclaredLength(arg))

\* the decimal text d and a number k: the decimal text of their sum
RECURSIVE DecimalPlus(_, _)
DecimalPlus(d, k) ==
    IF d = << >>
        THEN IF k = 0 THEN << >> ELSE DecimalPlus(<< >>, k \div 10) \o << 48 + (k % 10) >>
    ELSE LET t == (d[Len(d)] - 48) + k
         IN  DecimalPlus(SubSeq(d, 1, Len(d) - 1), t \div 10) \o << 48 + (t % 10) >>

\* the keys of a table in their order
KeysOf(m) == [i \in 1..Len(m) |-> m[i][1]]

\* C20: a built message has in _ctrl the keys _ser, _tim, _exp and then
\* _nonce only when a nonce is given; _exp is the decimal text of _tim + 60
\* for every 32-bit timestamp, with no overflow and no wrap; _data holds
\* exactly type = the command.
C20_MessageShape ==
    fn = "build_message" =>
        /\ ret.st = "Ok"
        /\ LET d    == decode(ret.val)
               ctrl == map_get(d.val, S_ctrl).v
               data == map_get(d.val, S_data).v
           IN  /\ d.st = "Ok"
               /\ KeysOf(d.val) = << S_auth, S_ctrl, S_data >>
               /\ KeysOf(ctrl) = IF arg[4] = None THEN << S_ser, S_tim, S_exp >>
                                  ELSE << S_ser, S_tim, S_exp, S_nonce >>
               /\ map_get(ctrl, S_ser).v = to_string(arg[5])
               /\ map_get(ctrl, S_tim).v = to_string(arg[6])
               /\ map_get(ctrl, S_exp).v = DecimalPlus(map_get(ctrl, S_tim).v, ExpiryWindow)
               /\ arg[4] # None => map_get(ctrl, S_nonce).v = arg[4][1]
               /\ data = << << S_type, String(arg[1]) >> >>

\* C20, apart from the overflow: whenever the expiry is still a u32
C20_MessageShapeInRange ==
    (fn = "build_message" /\ ~u32_add(arg[6], ExpiryWindow).overflow) => C20_MessageShape

\* C21: when the shutdown fails after the command response was read in
\* full, the call returns NetworkError at once and the response is neither
\* decoded nor returned; the client shuts down at most once per call, and
\* only right after the successful read of the command response, so a call
\* whose command write or framed read failed has no shutdown at all.
C21_ShutdownFailure ==
    /\ \A i \in Events :
          IsShutdown(log[i]) =>
              /\ i > 2
              /\ IsRead(log[i - 1]) /\ log[i - 1].ok /\ log[i - 1].call = log[i].call
              /\ IsCommandWrite(log[i - 2]) /\ log[i - 2].ok
              /\ log[i - 2].call = log[i].call
              /\ \A j \in Events :
                    log[j].call = log[i].call =>
                        /\ IsShutdown(log[j]) => j = i
                        /\ (IsWrite(log[j]) \/ IsRead(log[j])) => log[j].ok
                        /\ IsDecode(log[j]) => log[i].ok
    /\ (LastIs("shutdown") /\ ~log[Len(log)].ok) =>
          /\ pc = "idle"
          /\ outcome.kind = "Err" /\ outcome.err = "NetworkError" /\ outcome.at = "close"
          /\ outcome.result = FALSE /\ outcome.text = None /\ outcome.errtext = None

\* the shutdown fails behind a well-formed success response
C21_Witness ==
    /\ LastIs("shutdown") /\ ~log[Len(log)].ok
    /\ outcome.err = "NetworkError"
    /\ command_result(res).kind = "Ok" /\ command_result(res).result

\* the entries of a table on the wire as a table with unique keys: every key
\* once, where it came first, with the value that came last
RECURSIVE KeysUnique(_), ValueUnique(_)
KeysUnique(es) ==
    IF es = << >> THEN << >>
    ELSE LET k    == es[1][1]
             last == CHOOSE i \in 1..Len(es) :
                         es[i][1] = k /\ \A j \in (i + 1)..Len(es) : es[j][1] # k
         IN  << << k, ValueUnique(es[last][2]) >> >>
                 \o KeysUnique(SelectSeq(Tail(es), LAMBDA e : e[1] # k))

ValueUnique(val) ==
    IF val.t = "Table" THEN Table(KeysUnique(val.v))
    ELSE IF val.t = "List" THEN List([i \in 1..Len(val.v) |-> ValueUnique(val.v[i])])
    ELSE AsDecoded(val)

\* whether some key comes twice in the entries
ComesAgain(es) == \E i, j \in 1..Len(es) : i < j /\ es[i][1] = es[j][1]

\* C22: a decoded table, top-level or nested, holds every key of its wire
\* bytes once, with the value of the last occurrence at the position of the
\* first occurrence, and the other entries in wire order.
C22_KeysUnique ==
    fn = "table_fromwire" =>
        /\ ret.st = "Ok"
        /\ ret.val = KeysUnique(arg[1])
        /\ \A i, j \in 1..Len(ret.val) : ret.val[i][1] = ret.val[j][1] => i = j

\* a, b, a on the wire with a nested table that repeats a key as the last a
C22_Witness ==
    /\ fn = "table_fromwire" /\ ret.st = "Ok"
    /\ Len(arg[1]) = 3 /\ arg[1][1][1] = S_a /\ arg[1][2][1] = S_b /\ arg[1][3][1] = S_a
    /\ arg[1][1][2] = Binary(S_x) /\ arg[1][3][2].t = "Table" /\ ComesAgain(arg[1][3][2].v)
    /\ Len(ret.val) = 2 /\ ret.val[1][1] = S_a /\ ret.val[2][1] = S_b
    /\ ret.val[1][2] = Table(<< <<S_a, String(S_test)>>, <<S_b, String(S_x)>> >>)

=============================================================================
